---- MODULE Spec2Model ----
(***************************************************************************)
(* Model of the redirect operator (ibotty/kube-redirect-operator).         *)
(*                                                                         *)
(*   - the reconciliation engine of src/src/controller.rs: reconcile (the  *)
(*     finalizer protocol), apply, cleanup, error_policy, run by the       *)
(*     controller of get_controller against an API server that holds the   *)
(*     Redirect objects (Intents) and the generated Ingress objects;       *)
(*   - the redirect handler of src/src/main.rs, reading a replica's Store; *)
(*   - the shutdown of main: signal, join of the tasks, release of the     *)
(*     lease;                                                              *)
(*   - the leader election that main.rs sets up (setup_leader_election,    *)
(*     leader_handle.state()); its implementation is not part of the       *)
(*     sources at hand and is modelled from the specification document.    *)
(*                                                                         *)
(* Strings are sequences of chunks (<<"ns1", ".", "x">> is "ns1.x"), so    *)
(* that formatting and trimming are computed and not assumed.              *)
(***************************************************************************)
EXTENDS Naturals, Integers, Sequences, FiniteSets, TLC

VARIABLES
    intents,    \* API server: Redirect objects, by identity
    ingresses,  \* API server: Ingress objects of the operator namespace, by name
    store,      \* per replica: the reflector Store (cached Redirect objects)
    rec,        \* per replica and Redirect: the reconciliation in flight
    result,     \* per replica and Redirect: outcome of the last reconciliation
    lease,      \* lease backend: holder and remaining validity
    leader,     \* per replica: the leadership flag read by the driver
    timer,      \* per replica: time until its next call to the lease backend
    blocked,    \* per replica: its calls to the lease backend fail
    resp,       \* the last response of the redirect handler
    proc        \* per replica: where the process is in main (running, ...)

engineVars == <<intents, ingresses, store, rec, result>>
leaseVars  == <<lease, leader, timer, blocked>>
vars == <<intents, ingresses, store, rec, result, lease, leader, timer, blocked, resp,
          proc>>

----------------------------------------------------------------------------
(* Strings *)

Str(c) == <<c>>
EmptyStr == <<>>

----------------------------------------------------------------------------
(* Constants of the program *)

REDIRECT_KUBE_FINALIZER_SLUG == "redirect.kube.ibotty.net/cleanup"
SelfNamespace == Str("redirect-operator")
SelfServiceName == Str("redirect-operator")
BackendPort == 8080
Concurrency == 2
RequeueOk == 300
RequeueError == 1

----------------------------------------------------------------------------
(* Universe of the model *)

Replicas == {"r1", "r2"}
Names == {"x", "y", "z"}
Ids == {[ns |-> "ns1", name |-> n] : n \in Names}
\* The Redirects that users create in the engine specifications.
EngineIds == {[ns |-> "ns1", name |-> "x"]}
NoObj == [exists |-> FALSE]
None == [none |-> TRUE]
Some(v) == [some |-> v]

HostA == Str("a.example")
HostB == Str("b.example")
DestUri == <<"https://dest", "/">>

\* RedirectSpec values (src/src/types.rs): hosts, to, ingress.
RedirectSpecOf(hosts, uri, inc, enabled, tlsEnabled, secret) ==
    [hosts |-> hosts,
     to |-> [uri |-> uri, include_request_uri |-> inc],
     ingress |-> [enabled |-> enabled,
                  tls |-> [enabled |-> tlsEnabled, secret_name |-> secret],
                  ingress_class_name |-> None,
                  annotations |-> Some("user-annotations"),
                  labels |-> Some("user-labels")]]

\* The RedirectSpec values a user writes in the engine specifications: one
\* or two hosts, the Ingress enabled or not, TLS off, on with the default
\* secret name, on with a secret name of the user's.
NoTls == <<FALSE, None>>
DefaultTls == <<TRUE, None>>
NamedTls == <<TRUE, Some(Str("my-secret"))>>
EngineSpecs ==
    {RedirectSpecOf(c[1], DestUri, TRUE, c[2], c[3][1], c[3][2]) :
        c \in {<<{HostA}, TRUE, NoTls>>,
               <<{HostA, HostB}, TRUE, NoTls>>,
               <<{HostA}, FALSE, NoTls>>,
               <<{HostA}, TRUE, DefaultTls>>,
               <<{HostA}, TRUE, NamedTls>>,
               <<{HostA, HostB}, TRUE, DefaultTls>>}}

\* RedirectStatus::default(): an empty name and namespace.
RedirectStatusDefault == [ingress |-> [name |-> EmptyStr, namespace |-> EmptyStr]]

\* A Redirect object as the API server creates it from a user's manifest.
NewRedirect(id, spec) ==
    [exists |-> TRUE,
     metadata |-> [namespace |-> id.ns, name |-> id.name,
                   finalizers |-> <<>>, deletion_timestamp |-> FALSE],
     spec |-> spec,
     status |-> None]

----------------------------------------------------------------------------
(* controller.rs: pure functions *)

\* format!("{}.{}", namespace, name)
ingress_name_for_redirect(redirect) ==
    <<redirect.metadata.namespace, ".", redirect.metadata.name>>

IngressNames == {<<id.ns, ".", id.name>> : id \in Ids}

ingress_backend(service_name) ==
    [service |-> [name |-> service_name, port |-> BackendPort]]

\* The IngressTLS block: present only when tls.enabled; the secret name
\* defaults to "{name}-tls-certs".
IngressTlsFor(redirect) ==
    IF redirect.spec.ingress.tls.enabled
    THEN Some([hosts |-> redirect.spec.hosts,
               secret_name |->
                   IF redirect.spec.ingress.tls.secret_name = None
                   THEN <<redirect.metadata.name, "-tls-certs">>
                   ELSE redirect.spec.ingress.tls.secret_name.some])
    ELSE None

\* Rules for one host only, whatever the number of hosts.
IngressRulesFor_FirstHostOnly(redirect) ==
    IF redirect.spec.hosts = {}
    THEN {}
    ELSE LET h == CHOOSE x \in redirect.spec.hosts : TRUE IN
         {[host |-> h, path |-> "/", path_type |-> "Prefix",
           backend |-> ingress_backend(SelfServiceName)]}

\* One IngressRule per host of the Redirect, all with the same backend.
IngressRulesFor(redirect) ==
    {[host |-> h,
      path |-> "/", path_type |-> "Prefix",
      backend |-> ingress_backend(SelfServiceName)] : h \in redirect.spec.hosts}

ingress_for_redirect(redirect) ==
    [exists |-> TRUE,
     metadata |-> [name |-> ingress_name_for_redirect(redirect),
                   namespace |-> SelfNamespace,
                   \* as in the source: annotations from labels, labels from annotations
                   annotations |-> redirect.spec.ingress.labels,
                   labels |-> redirect.spec.ingress.annotations],
     spec |-> [ingress_class_name |-> redirect.spec.ingress.ingress_class_name,
               rules |-> IngressRulesFor(redirect),
               tls |-> IngressTlsFor(redirect)]]

----------------------------------------------------------------------------
(* kube::runtime::finalizer, as called by reconcile *)

HasFinalizer(obj) ==
    \E k \in 1..Len(obj.metadata.finalizers) :
        obj.metadata.finalizers[k] = REDIRECT_KUBE_FINALIZER_SLUG

\* A finalizer() that runs apply on an object without the finalizer.
FinalizerArm_ApplyWithoutFinalizer(obj) ==
    IF obj.metadata.deletion_timestamp
    THEN (IF HasFinalizer(obj) THEN "Cleanup" ELSE "Done")
    ELSE "Apply"

\* The arm of finalizer() taken for the object handed to reconcile:
\* FinalizerState { finalizer_index, is_deleting }.
FinalizerArm(obj) ==
    CASE HasFinalizer(obj) /\ ~obj.metadata.deletion_timestamp -> "Apply"
      [] HasFinalizer(obj) /\ obj.metadata.deletion_timestamp -> "Cleanup"
      [] ~HasFinalizer(obj) /\ ~obj.metadata.deletion_timestamp -> "AddFinalizer"
      [] OTHER -> "Done"

RemoveFinalizerFrom(fs) ==
    SelectSeq(fs, LAMBDA f : f # REDIRECT_KUBE_FINALIZER_SLUG)

----------------------------------------------------------------------------
(* Reconciliation bookkeeping *)

Idle == [pc |-> "idle", obs |-> NoObj, status |-> None]
NoResult == [event |-> "none", outcome |-> "none", cause |-> "none", action |-> None]

\* A requeue whose delay is taken in minutes.
ActionRequeue_Minutes(secs) == Some(secs * 60)

ActionRequeue(secs) == Some(secs)
ActionAwaitChange == Some("await_change")

\* An error_policy that leaves the retry to the sweep after 300 seconds.
error_policy_LongDelay == Some(300)

\* error_policy: every error is answered by a requeue after one second.
error_policy == ActionRequeue(RequeueError)

\* The first pending call of apply: the Ingress patch only when
\* spec.ingress.enabled, otherwise the status patch directly.
ApplyFirstStep(redirect) ==
    IF redirect.spec.ingress.enabled THEN "patch_ingress" ELSE "patch_status"

\* An apply that, on an error, is left at the call it was at, to make it again.
Finish_RetryInPlace(r, i, event, outcome, cause, action) ==
    /\ rec' = IF event = "Apply" /\ outcome # "Ok" THEN rec
              ELSE [rec EXCEPT ![r][i] = Idle]
    /\ result' = [result EXCEPT ![r][i] =
                    [event |-> event, outcome |-> outcome, cause |-> cause,
                     action |-> action]]

\* A reconciliation ends: the driver records the outcome and the next check.
\* outcome is Ok or the error returned; cause is the kube::Error it wraps.
Finish(r, i, event, outcome, cause, action) ==
    /\ rec' = [rec EXCEPT ![r][i] = Idle]
    /\ result' = [result EXCEPT ![r][i] =
                    [event |-> event, outcome |-> outcome, cause |-> cause,
                     action |-> action]]

InFlight(r) == {j \in Ids : rec[r][j].pc # "idle"}

----------------------------------------------------------------------------
(* API server *)

\* The errors a call on one object can return: a transport failure at any
\* time, 404 when the object does not exist, 422 when a JSON patch test or
\* the server's validation fails.
PatchFailures(exists, rejected) ==
    {"Transport"} \cup (IF exists THEN {} ELSE {"NotFound"})
                  \cup (IF rejected THEN {"Invalid"} ELSE {})

\* Removing a finalizer: an object marked for deletion whose last finalizer
\* goes is garbage-collected by the API server.
AfterFinalizerRemoval(obj) ==
    LET fs == RemoveFinalizerFrom(obj.metadata.finalizers) IN
    IF obj.metadata.deletion_timestamp /\ fs = <<>>
    THEN NoObj
    ELSE [obj EXCEPT !.metadata.finalizers = fs]

\* DELETE of a Redirect: deferred (deletion timestamp set) while a finalizer
\* remains, immediate otherwise.
AfterUserDelete(obj) ==
    IF obj.metadata.finalizers = <<>>
    THEN NoObj
    ELSE [obj EXCEPT !.metadata.deletion_timestamp = TRUE]

UserCreate(i, s) ==
    /\ ~intents[i].exists
    /\ intents' = [intents EXCEPT ![i] = NewRedirect(i, s)]
    /\ UNCHANGED <<ingresses, store, rec, result, leaseVars, resp, proc>>

UserUpdate(i, s) ==
    /\ intents[i].exists
    /\ intents[i].spec # s
    /\ intents' = [intents EXCEPT ![i].spec = s]
    /\ UNCHANGED <<ingresses, store, rec, result, leaseVars, resp, proc>>

UserDelete(i) ==
    /\ intents[i].exists
    /\ ~intents[i].metadata.deletion_timestamp
    /\ intents' = [intents EXCEPT ![i] = AfterUserDelete(@)]
    /\ UNCHANGED <<ingresses, store, rec, result, leaseVars, resp, proc>>

\* The reflector applies a watch event: the Store's copy of one Redirect is
\* replaced by the API server's (or dropped when the object is gone).
Watch(r, i) ==
    /\ store[r][i] # intents[i]
    /\ store' = [store EXCEPT ![r][i] = intents[i]]
    /\ UNCHANGED <<intents, ingresses, rec, result, leaseVars, resp, proc>>

----------------------------------------------------------------------------
(* The process of a replica: main, from its start to its return *)

\* No shutdown signal has been received: the controller starts what is due
\* and the listeners accept.
Running(r) == proc[r] = "running"

\* main has not returned: the tasks of the process run, the coordinator of
\* the lease among them.
ProcessAlive(r) == proc[r] # "exited"

----------------------------------------------------------------------------
(* Leadership: the lease backend, the coordinator of each replica, the gate *)

\* Validity of a lease after an acquisition or a renewal, and the cadence of
\* a replica's calls to the lease backend (strictly shorter), in ticks.
LeaseDuration == 3
RenewPeriod == 1

LeaseFree == lease.holder = None \/ lease.ttl = 0

\* The driver of replica r starts reconciliations only while r is leader.
DriverGate(r) == leader[r]

\* A standby whose acquire succeeds although the lease is held and valid.
CanAcquire_IgnoringHolder(r) == TRUE

\* acquire-if-unheld-or-expired (a holder's own call is renew-if-held).
CanAcquire(r) == LeaseFree \/ (lease.holder = Some(r) /\ lease.ttl > 0)

\* A leader that never gives up on failed renewals.
MustDemote_Never(r) == FALSE

\* The hard deadline: after a failed renewal the leader may stay leader only
\* if its next attempt still falls within the lease's validity.
MustDemote(r) == lease.ttl <= RenewPeriod

\* Replica r stops being leader: the driver is told to stop; each
\* reconciliation in flight is either abandoned or left to finish.
DemotedRec(r, kept) ==
    [rec EXCEPT ![r] = [i \in Ids |-> IF i \in kept THEN rec[r][i] ELSE Idle]]

\* A standby's call: it becomes leader when the lease is free.
TryAcquire(r) ==
    /\ ProcessAlive(r)
    /\ timer[r] = 0
    /\ ~leader[r]
    /\ ~blocked[r]
    /\ CanAcquire(r)
    /\ lease' = [holder |-> Some(r), ttl |-> LeaseDuration]
    /\ leader' = [leader EXCEPT ![r] = TRUE]
    /\ timer' = [timer EXCEPT ![r] = RenewPeriod]
    /\ UNCHANGED <<engineVars, blocked, resp, proc>>

\* A standby's call that does not get the lease: the call fails, or the
\* lease is held by the other replica.
AcquireFails(r) ==
    /\ ProcessAlive(r)
    /\ timer[r] = 0
    /\ ~leader[r]
    /\ blocked[r] \/ ~CanAcquire(r)
    /\ timer' = [timer EXCEPT ![r] = RenewPeriod]
    /\ UNCHANGED <<engineVars, lease, leader, blocked, resp, proc>>

\* The leader's call: renew-if-held.
Renew(r) ==
    /\ ProcessAlive(r)
    /\ timer[r] = 0
    /\ leader[r]
    /\ ~blocked[r]
    /\ lease.holder = Some(r)
    /\ lease' = [lease EXCEPT !.ttl = LeaseDuration]
    /\ timer' = [timer EXCEPT ![r] = RenewPeriod]
    /\ UNCHANGED <<engineVars, leader, blocked, resp, proc>>

\* The leader's call fails: it stays leader while the hard deadline allows
\* (fewer than N failures), or demotes itself.
RenewFails(r) ==
    /\ ProcessAlive(r)
    /\ timer[r] = 0
    /\ leader[r]
    /\ blocked[r]
    /\ timer' = [timer EXCEPT ![r] = RenewPeriod]
    /\ \/ /\ ~MustDemote(r)
          /\ UNCHANGED <<leader, rec>>
       \/ /\ leader' = [leader EXCEPT ![r] = FALSE]
          /\ \E kept \in SUBSET InFlight(r) : rec' = DemotedRec(r, kept)
    /\ UNCHANGED <<intents, ingresses, store, result, lease, blocked, resp, proc>>

\* The network between replica r and the lease backend fails, or heals.
Block(r) ==
    /\ ~blocked[r]
    /\ blocked' = [blocked EXCEPT ![r] = TRUE]
    /\ UNCHANGED <<engineVars, lease, leader, timer, resp, proc>>

Unblock(r) ==
    /\ blocked[r]
    /\ blocked' = [blocked EXCEPT ![r] = FALSE]
    /\ UNCHANGED <<engineVars, lease, leader, timer, resp, proc>>

\* Time passes once every due call to the lease backend has been made (a
\* process that has returned makes none).
Tick ==
    /\ \A r \in Replicas : ProcessAlive(r) => timer[r] > 0
    /\ timer' = [r \in Replicas |-> IF timer[r] > 0 THEN timer[r] - 1 ELSE 0]
    /\ lease' = [lease EXCEPT !.ttl = IF @ > 0 THEN @ - 1 ELSE 0]
    /\ UNCHANGED <<engineVars, leader, blocked, resp, proc>>

Coordinator(r) ==
    \/ TryAcquire(r)
    \/ AcquireFails(r)
    \/ Renew(r)
    \/ RenewFails(r)

----------------------------------------------------------------------------
(* controller.rs: reconcile, apply, cleanup *)

\* A driver that starts what is due whenever one of its two slots is free,
\* also for a Redirect whose reconciliation is running.
CanDispatch_WhileRunning(r, i) == Cardinality(InFlight(r)) < Concurrency

\* The controller, run with concurrency(2): a Redirect that is due is started
\* only when no reconciliation of it is running, and when fewer than two
\* reconciliations are.
CanDispatch(r, i) ==
    /\ rec[r][i].pc = "idle"
    /\ Cardinality(InFlight(r)) < Concurrency

\* The driver hands the Store's copy of a Redirect to reconcile, which
\* selects the arm of the finalizer protocol.
Reconcile(r, i) ==
    /\ Running(r)
    /\ DriverGate(r)
    /\ CanDispatch(r, i)
    /\ store[r][i].exists
    /\ LET redirect == store[r][i]
           arm == FinalizerArm(redirect)
       IN  CASE arm = "Apply" ->
                  /\ rec' = [rec EXCEPT ![r][i] =
                                [pc |-> ApplyFirstStep(redirect), obs |-> redirect,
                                 status |-> RedirectStatusDefault]]
                  /\ UNCHANGED result
             [] arm = "Cleanup" ->
                  /\ rec' = [rec EXCEPT ![r][i] =
                                [pc |-> "delete_ingress", obs |-> redirect,
                                 status |-> None]]
                  /\ UNCHANGED result
             [] arm = "AddFinalizer" ->
                  /\ rec' = [rec EXCEPT ![r][i] =
                                [pc |-> "add_finalizer", obs |-> redirect,
                                 status |-> None]]
                  /\ UNCHANGED result
             [] OTHER ->
                  Finish(r, i, "Done", "Ok", "none", ActionAwaitChange)
    /\ UNCHANGED <<intents, ingresses, store, leaseVars, resp, proc>>

\* finalizer(): JSON patch [test /metadata/finalizers, add]; no apply follows.
AddFinalizer(r, i) ==
    /\ rec[r][i].pc = "add_finalizer"
    /\ \/ /\ intents[i].exists
          /\ ~intents[i].metadata.deletion_timestamp
          /\ intents[i].metadata.finalizers = rec[r][i].obs.metadata.finalizers
          /\ intents' = [intents EXCEPT ![i].metadata.finalizers =
                            Append(@, REDIRECT_KUBE_FINALIZER_SLUG)]
          /\ Finish(r, i, "AddFinalizer", "Ok", "none", ActionAwaitChange)
       \/ /\ \E cause \in PatchFailures(intents[i].exists,
                   intents[i].exists /\
                   (\/ intents[i].metadata.deletion_timestamp
                    \/ intents[i].metadata.finalizers # rec[r][i].obs.metadata.finalizers)) :
                Finish(r, i, "AddFinalizer", "AddFinalizer", cause, error_policy)
          /\ UNCHANGED intents
    /\ UNCHANGED <<ingresses, store, leaseVars, resp, proc>>

\* The status value that apply builds: the default, with the Ingress's name and
\* namespace put in only when spec.ingress.enabled.
ApplyStatus(redirect) ==
    IF redirect.spec.ingress.enabled
    THEN [ingress |-> [name |-> ingress_name_for_redirect(redirect),
                       namespace |-> SelfNamespace]]
    ELSE RedirectStatusDefault

\* A patch that writes the labels and annotations of the Ingress it finds in
\* place, exchanged, over those of the applied configuration.
IngressesAfterApply_Exchanging(ings, ingress) ==
    [ings EXCEPT ![ingress.metadata.name] =
        IF @.exists
        THEN [ingress EXCEPT !.metadata.annotations = ings[ingress.metadata.name].metadata.labels,
                             !.metadata.labels = ings[ingress.metadata.name].metadata.annotations]
        ELSE ingress]

\* A patch that merges: a tls block once written stays when the applied
\* configuration has none.
IngressesAfterApply_KeepingTls(ings, ingress) ==
    [ings EXCEPT ![ingress.metadata.name] =
        IF @.exists /\ ingress.spec.tls = None
        THEN [ingress EXCEPT !.spec.tls = ings[ingress.metadata.name].spec.tls]
        ELSE ingress]

\* Server-side apply by the operator's field manager, the only writer of the
\* Ingress: the object becomes the applied configuration (created when
\* absent; a field the manager no longer applies is removed).
IngressesAfterApply(ings, ingress) ==
    [ings EXCEPT ![ingress.metadata.name] = ingress]

\* JSON merge patch {"status": status} of Redirect i.
IntentsAfterStatusPatch(ints, i, status) ==
    [ints EXCEPT ![i].status = Some(status)]

\* The cluster after an apply of redirect (the Redirect i) in which both
\* calls succeed.
ApplyRun(cluster, i, redirect) ==
    [ingresses |->
        IF redirect.spec.ingress.enabled
        THEN IngressesAfterApply(cluster.ingresses, ingress_for_redirect(redirect))
        ELSE cluster.ingresses,
     intents |-> IntentsAfterStatusPatch(cluster.intents, i, ApplyStatus(redirect))]

\* apply: ingress_api.patch(.., Patch::Apply(ingress)), then the status value.
ApplyPatchIngress(r, i) ==
    /\ rec[r][i].pc = "patch_ingress"
    /\ LET ingress == ingress_for_redirect(rec[r][i].obs)
       IN  \/ /\ ingresses' = IngressesAfterApply(ingresses, ingress)
              /\ rec' = [rec EXCEPT ![r][i].pc = "patch_status",
                                    ![r][i].status = ApplyStatus(rec[r][i].obs)]
              /\ UNCHANGED result
           \/ /\ Finish(r, i, "Apply", "IngressCreationFailed", "Transport", error_policy)
              /\ UNCHANGED ingresses
    /\ UNCHANGED <<intents, store, leaseVars, resp, proc>>

\* apply: api.patch_status(.., Patch::Merge({"status": status})).
ApplyPatchStatus(r, i) ==
    /\ rec[r][i].pc = "patch_status"
    /\ \/ /\ intents[i].exists
          /\ intents' = IntentsAfterStatusPatch(intents, i, rec[r][i].status)
          /\ Finish(r, i, "Apply", "Ok", "none", ActionRequeue(RequeueOk))
       \/ /\ \E cause \in PatchFailures(intents[i].exists, FALSE) :
                Finish(r, i, "Apply", "StatusUpdateFailed", cause, error_policy)
          /\ UNCHANGED intents
    /\ UNCHANGED <<ingresses, store, leaseVars, resp, proc>>

\* A DELETE answered with success that leaves the object in place.
IngressesAfterDelete_Kept(ings, name) == ings

\* The Ingress collection after a DELETE that the API server accepted.
IngressesAfterDelete(ings, name) == [ings EXCEPT ![name] = NoObj]

\* cleanup: ingress_api.delete(name); every error of the call, the 404 of an
\* absent Ingress included, is mapped to IngressDeletionFailed.
CleanupDeleteIngress(r, i) ==
    /\ rec[r][i].pc = "delete_ingress"
    /\ LET ingress_name == ingress_name_for_redirect(rec[r][i].obs)
       IN  \/ /\ ingresses[ingress_name].exists
              /\ ingresses' = IngressesAfterDelete(ingresses, ingress_name)
              /\ rec' = [rec EXCEPT ![r][i].pc = "remove_finalizer"]
              /\ UNCHANGED result
           \/ /\ \E cause \in PatchFailures(ingresses[ingress_name].exists, FALSE) :
                    Finish(r, i, "Cleanup", "IngressDeletionFailed", cause, error_policy)
              /\ UNCHANGED ingresses
    /\ UNCHANGED <<intents, store, leaseVars, resp, proc>>

\* finalizer(): after cleanup returned Ok, JSON patch [test, remove] of the
\* finalizer entry.
RemoveFinalizer(r, i) ==
    /\ rec[r][i].pc = "remove_finalizer"
    /\ \/ /\ intents[i].exists
          /\ HasFinalizer(intents[i])
          /\ intents' = [intents EXCEPT ![i] = AfterFinalizerRemoval(@)]
          /\ Finish(r, i, "Cleanup", "Ok", "none", ActionRequeue(RequeueOk))
       \/ /\ \E cause \in PatchFailures(intents[i].exists,
                   intents[i].exists /\ ~HasFinalizer(intents[i])) :
                Finish(r, i, "Cleanup", "RemoveFinalizer", cause, error_policy)
          /\ UNCHANGED intents
    /\ UNCHANGED <<ingresses, store, leaseVars, resp, proc>>

----------------------------------------------------------------------------
(* main.rs: the redirect handler *)

NoResponse == [kind |-> "none"]

\* A request: the Host header (host name and optional port) and the URI path,
\* which starts with "/".
Request(hostname, port, path) ==
    [host |-> [hostname |-> hostname, port |-> port], path |-> path]

\* Host::to_string(): the host name, followed by ":port" when a port is given.
HostToString(host) ==
    IF host.port = None THEN host.hostname
    ELSE host.hostname \o <<":", host.port.some>>

\* str::trim_end_matches(c): every trailing occurrence of c is removed.
RECURSIVE trim_end_matches(_, _)
trim_end_matches(s, c) ==
    IF s # <<>> /\ s[Len(s)] = c
    THEN trim_end_matches(SubSeq(s, 1, Len(s) - 1), c)
    ELSE s

\* Percent-decoding of the captured path, chunk by chunk.
PercentDecode(s) ==
    [k \in 1..Len(s) |-> IF s[k] = "%41" THEN "A" ELSE s[k]]

\* The routes "/" and "/{*path}": the first has no path parameter, the
\* second captures what follows the leading "/", percent-decoded.
PathParam(path) ==
    IF path = <<"/">> THEN None ELSE Some(PercentDecode(Tail(path)))

\* A target without the "/" between the uri and the path.
RedirectUri_NoSeparator(to, path) ==
    IF to.include_request_uri
    THEN to.uri \o (IF path = None THEN EmptyStr ELSE path.some)
    ELSE to.uri

\* format!("{}/{}", to.uri, path) when include_request_uri, else to.uri.
RedirectUri(to, path) ==
    IF to.include_request_uri
    THEN to.uri \o <<"/">> \o (IF path = None THEN EmptyStr ELSE path.some)
    ELSE to.uri

\* store.find(p): the Redirects of the Store whose hosts contain the host.
StoreMatches(r, host) ==
    {i \in Ids : store[r][i].exists /\ host \in store[r][i].spec.hosts}

\* NotFoundError::into_response is todo!(): the handler's task panics.
NotFoundResponse(r, req) ==
    [kind |-> "panic", status |-> None, location |-> None,
     replica |-> r, req |-> req, from |-> None, metric |-> "failure"]

\* A webserver that is started only on the leader.
WebserverRunning_OnlyOnLeader(r) == leader[r]

\* main: the webserver is bound and served on every replica, joined with the
\* controller task, whatever the state of the leader election, until the
\* shutdown signal (with_graceful_shutdown).
WebserverRunning(r) == Running(r)

\* The handler: any Redirect of the Store that claims the host may be the
\* one found (the Store's order is unspecified).
Redirect(r, req) ==
    /\ WebserverRunning(r)
    /\ LET host == trim_end_matches(HostToString(req.host), ".")
           path == PathParam(req.path)
       IN  \/ \E i \in StoreMatches(r, host) :
                 resp' = [kind |-> "permanent_redirect", status |-> Some(308),
                          location |-> Some(RedirectUri(store[r][i].spec.to, path)),
                          replica |-> r, req |-> req, from |-> Some(i),
                          metric |-> "request"]
           \/ /\ StoreMatches(r, host) = {}
              /\ resp' = NotFoundResponse(r, req)
    /\ UNCHANGED <<engineVars, leaseVars, proc>>

----------------------------------------------------------------------------
(* main.rs: shutdown *)

\* SIGTERM or ctrl-c: the controller (shutdown_on_signal) starts no further
\* reconciliation and both servers (with_graceful_shutdown) accept no
\* further connection; what is in flight goes on.
Signal(r) ==
    /\ proc[r] = "running"
    /\ proc' = [proc EXCEPT ![r] = "stopping"]
    /\ UNCHANGED <<engineVars, leaseVars, resp>>

\* A join that does not wait for the controller task.
CanJoin_NotWaiting(r) == proc[r] = "stopping"

\* tokio::join!(controller, webserver, metrics_server) completes: the
\* controller's stream has ended, which it does once no reconciliation
\* runs, and both servers have returned (a handler runs in one step here).
CanJoin(r) == proc[r] = "stopping" /\ InFlight(r) = {}

\* The join completes; r1? and r2? pass, the servers having returned Ok.
Join(r) ==
    /\ CanJoin(r)
    /\ proc' = [proc EXCEPT ![r] = "joined"]
    /\ UNCHANGED <<engineVars, leaseVars, resp>>

\* The lease after its holder r has released it.
LeaseAfterRelease(r) ==
    IF lease.holder = Some(r) THEN [holder |-> None, ttl |-> 0] ELSE lease

\* leader_handle.shutdown(): the coordinator stops and releases the lease
\* if it holds it; main returns.
Shutdown(r) ==
    /\ proc[r] = "joined"
    /\ lease' = LeaseAfterRelease(r)
    /\ leader' = [leader EXCEPT ![r] = FALSE]
    /\ proc' = [proc EXCEPT ![r] = "exited"]
    /\ UNCHANGED <<engineVars, timer, blocked, resp>>

----------------------------------------------------------------------------
(* Specification of the reconciliation engine: one replica, the leader *)

Primary == "r1"

\* The lease is held by replica p, which is and stays the leader: the
\* engine specifications take no step of the lease protocol.
InitLeaseHeldBy(p) ==
    /\ lease = [holder |-> Some(p), ttl |-> LeaseDuration]
    /\ leader = [r \in Replicas |-> r = p]
    /\ timer = [r \in Replicas |-> RenewPeriod]
    /\ blocked = [r \in Replicas |-> FALSE]
    /\ proc = [r \in Replicas |-> "running"]

InitEngine ==
    /\ intents = [i \in Ids |-> NoObj]
    /\ ingresses = [n \in IngressNames |-> NoObj]
    /\ store = [r \in Replicas |-> [i \in Ids |-> NoObj]]
    /\ rec = [r \in Replicas |-> [i \in Ids |-> Idle]]
    /\ result = [r \in Replicas |-> [i \in Ids |-> NoResult]]

Init ==
    /\ InitEngine
    /\ InitLeaseHeldBy(Primary)
    /\ resp = NoResponse

User ==
    \E i \in EngineIds :
        \/ \E s \in EngineSpecs : UserCreate(i, s)
        \/ \E s \in EngineSpecs : UserUpdate(i, s)
        \/ UserDelete(i)

Engine(r) ==
    \E i \in EngineIds :
        \/ Watch(r, i)
        \/ Reconcile(r, i)
        \/ AddFinalizer(r, i)
        \/ ApplyPatchIngress(r, i)
        \/ ApplyPatchStatus(r, i)
        \/ CleanupDeleteIngress(r, i)
        \/ RemoveFinalizer(r, i)

Next == User \/ Engine(Primary)

Spec == Init /\ [][Next]_vars

----------------------------------------------------------------------------
(* Specification of the redirect handler: requests against Store snapshots *)

HostADot == <<"a.example", ".">>
OtherUri == <<"https://other">>

ServeSpecs ==
    {RedirectSpecOf(h, t[1], t[2], TRUE, FALSE, None) :
        h \in {{HostA}, {HostADot}, {HostB}, {HostA, HostB}},
        t \in {<<DestUri, TRUE>>, <<OtherUri, FALSE>>}}

Requests ==
    {Request(h, port, path) :
        h \in {HostA, HostADot, HostB, <<"a.example", ".", ".">>},
        port \in {None, Some("8080")},
        path \in {<<"/">>, <<"/", "p">>, <<"/", "%41", "/", "q">>}}

InitServe ==
    /\ \E a \in [Ids -> {None} \cup {Some(s) : s \in ServeSpecs}] :
          intents = [i \in Ids |-> IF a[i] = None THEN NoObj
                                   ELSE NewRedirect(i, a[i].some)]
    /\ ingresses = [n \in IngressNames |-> NoObj]
    /\ store = [r \in Replicas |-> IF r = Primary THEN intents
                                    ELSE [i \in Ids |-> NoObj]]
    /\ rec = [r \in Replicas |-> [i \in Ids |-> Idle]]
    /\ result = [r \in Replicas |-> [i \in Ids |-> NoResult]]
    /\ InitLeaseHeldBy(Primary)
    /\ resp = NoResponse

NextServe == \E req \in Requests : Redirect(Primary, req)

SpecServe == InitServe /\ [][NextServe]_vars

----------------------------------------------------------------------------
(* Specification of two replicas sharing one lease backend *)

\* One Redirect exists, with the finalizer, applied: its Ingress exists and
\* its status names it. The Stores start empty and are filled by the watch.
SteadyRedirect(i) ==
    LET new == NewRedirect(i, RedirectSpecOf({HostA}, DestUri, TRUE, TRUE, FALSE, None))
    IN  [new EXCEPT !.metadata.finalizers = <<REDIRECT_KUBE_FINALIZER_SLUG>>,
                    !.status = Some([ingress |->
                                       [name |-> ingress_name_for_redirect(new),
                                        namespace |-> SelfNamespace]])]

LeaseRequests == {Request(HostA, None, <<"/", "p">>), Request(HostB, None, <<"/">>)}

InitLease ==
    /\ intents = [i \in Ids |-> IF i \in EngineIds THEN SteadyRedirect(i) ELSE NoObj]
    /\ ingresses = [n \in IngressNames |->
                       IF \E i \in EngineIds : n = ingress_name_for_redirect(SteadyRedirect(i))
                       THEN ingress_for_redirect(
                                SteadyRedirect(CHOOSE i \in EngineIds :
                                    n = ingress_name_for_redirect(SteadyRedirect(i))))
                       ELSE NoObj]
    /\ store = [r \in Replicas |-> [i \in Ids |-> NoObj]]
    /\ rec = [r \in Replicas |-> [i \in Ids |-> Idle]]
    /\ result = [r \in Replicas |-> [i \in Ids |-> NoResult]]
    /\ lease = [holder |-> None, ttl |-> 0]
    /\ leader = [r \in Replicas |-> FALSE]
    /\ timer = [r \in Replicas |-> 0]
    /\ blocked = [r \in Replicas |-> FALSE]
    /\ proc = [r \in Replicas |-> "running"]
    /\ resp = NoResponse

\* With no change by a user, the steps of the engine that can be taken are
\* those of apply.
ApplyEngine(r) ==
    \E i \in EngineIds :
        \/ Watch(r, i)
        \/ Reconcile(r, i)
        \/ ApplyPatchIngress(r, i)
        \/ ApplyPatchStatus(r, i)

NextLease ==
    \/ Tick
    \/ \E r \in Replicas :
          \/ Coordinator(r)
          \/ Block(r)
          \/ Unblock(r)
          \/ ApplyEngine(r)
          \/ \E req \in LeaseRequests : Redirect(r, req)

SpecLease == InitLease /\ [][NextLease]_vars

\* The coordinators' timers run and their due calls are made.
FairLease == WF_vars(Tick) /\ \A r \in Replicas : WF_vars(Coordinator(r))

\* The two replicas without their webservers, for the failover.
NextFailover ==
    \/ Tick
    \/ \E r \in Replicas :
          \/ Coordinator(r)
          \/ Block(r)
          \/ Unblock(r)
          \/ ApplyEngine(r)

SpecFailover == InitLease /\ [][NextFailover]_vars /\ FairLease

----------------------------------------------------------------------------
(* Specification of the driver's retries: one replica, fair scheduling *)

\* A user creates one Redirect, with the Ingress enabled or not, and may
\* delete it at any time.
RetrySpecs ==
    {RedirectSpecOf({HostA}, DestUri, TRUE, enabled, FALSE, None) :
        enabled \in BOOLEAN}

InitRetry ==
    /\ \E s \in RetrySpecs :
          intents = [i \in Ids |-> IF i \in EngineIds THEN NewRedirect(i, s)
                                   ELSE NoObj]
    /\ ingresses = [n \in IngressNames |-> NoObj]
    /\ store = [r \in Replicas |-> [i \in Ids |-> NoObj]]
    /\ rec = [r \in Replicas |-> [i \in Ids |-> Idle]]
    /\ result = [r \in Replicas |-> [i \in Ids |-> NoResult]]
    /\ InitLeaseHeldBy(Primary)
    /\ resp = NoResponse

NextRetry == (\E i \in EngineIds : UserDelete(i)) \/ Engine(Primary)

\* A call of a reconciliation returns.
Call(r, i) ==
    \/ AddFinalizer(r, i)
    \/ ApplyPatchIngress(r, i)
    \/ ApplyPatchStatus(r, i)
    \/ CleanupDeleteIngress(r, i)
    \/ RemoveFinalizer(r, i)

\* The call that is made in a step returns Ok.
ReturnsOk(r, i) == rec'[r][i].pc # "idle" \/ result'[r][i].outcome = "Ok"

\* The watch delivers every change; the driver runs what is due (the object
\* after a watch event, a requeue of 300 s, the retry of error_policy after
\* 1 s); every call returns; and no call that can succeed is failed by the
\* transport for ever.
FairRetry ==
    \A i \in EngineIds :
        /\ WF_vars(Watch(Primary, i))
        /\ WF_vars(Reconcile(Primary, i))
        /\ WF_vars(Call(Primary, i))
        /\ SF_vars(AddFinalizer(Primary, i) /\ ReturnsOk(Primary, i))
        /\ SF_vars(ApplyPatchIngress(Primary, i) /\ ReturnsOk(Primary, i))
        /\ SF_vars(ApplyPatchStatus(Primary, i) /\ ReturnsOk(Primary, i))
        /\ SF_vars(CleanupDeleteIngress(Primary, i) /\ ReturnsOk(Primary, i))
        /\ SF_vars(RemoveFinalizer(Primary, i) /\ ReturnsOk(Primary, i))

SpecRetry == InitRetry /\ [][NextRetry]_vars /\ FairRetry

----------------------------------------------------------------------------
(* Specification of a deletion during a handover of leadership *)

\* The reconciliations of an Intent that carries the finalizer: apply, and
\* cleanup once it is marked for deletion.
FinalizedEngine(r) ==
    \E i \in EngineIds :
        \/ Watch(r, i)
        \/ Reconcile(r, i)
        \/ ApplyPatchIngress(r, i)
        \/ ApplyPatchStatus(r, i)
        \/ CleanupDeleteIngress(r, i)
        \/ RemoveFinalizer(r, i)

\* The Intent is applied, both Stores hold it, and the first replica leads.
InitHandover ==
    /\ intents = [i \in Ids |-> IF i \in EngineIds THEN SteadyRedirect(i) ELSE NoObj]
    /\ ingresses = [n \in IngressNames |->
                       IF \E i \in EngineIds : n = ingress_name_for_redirect(SteadyRedirect(i))
                       THEN ingress_for_redirect(
                                SteadyRedirect(CHOOSE i \in EngineIds :
                                    n = ingress_name_for_redirect(SteadyRedirect(i))))
                       ELSE NoObj]
    /\ store = [r \in Replicas |-> intents]
    /\ rec = [r \in Replicas |-> [i \in Ids |-> Idle]]
    /\ result = [r \in Replicas |-> [i \in Ids |-> NoResult]]
    /\ InitLeaseHeldBy(Primary)
    /\ resp = NoResponse

\* Two replicas, the lease between them (the calls of a replica to the lease
\* backend may start to fail), and a user who deletes the Intent.
NextHandover ==
    \/ Tick
    \/ \E i \in EngineIds : UserDelete(i)
    \/ \E r \in Replicas :
          \/ Coordinator(r)
          \/ Block(r)
          \/ FinalizedEngine(r)

SpecHandover == InitHandover /\ [][NextHandover]_vars

----------------------------------------------------------------------------
(* Specification of the driver's dispatch: one replica, three Redirects *)

\* Three Redirects exist, with the finalizer, applied; the Store starts empty
\* and is filled by the watch.
InitDriver ==
    /\ intents = [i \in Ids |-> SteadyRedirect(i)]
    /\ ingresses = [n \in IngressNames |->
                       ingress_for_redirect(
                           SteadyRedirect(CHOOSE i \in Ids :
                               n = ingress_name_for_redirect(SteadyRedirect(i))))]
    /\ store = [r \in Replicas |-> [i \in Ids |-> NoObj]]
    /\ rec = [r \in Replicas |-> [i \in Ids |-> Idle]]
    /\ result = [r \in Replicas |-> [i \in Ids |-> NoResult]]
    /\ InitLeaseHeldBy(Primary)
    /\ resp = NoResponse

NextDriver ==
    \E i \in Ids :
        \/ Watch(Primary, i)
        \/ Reconcile(Primary, i)
        \/ ApplyPatchIngress(Primary, i)
        \/ ApplyPatchStatus(Primary, i)

SpecDriver == InitDriver /\ [][NextDriver]_vars

----------------------------------------------------------------------------
(* Specification of the shutdown of replicas that share the lease *)

\* The calls to the lease backend succeed.
NextShutdown ==
    \/ Tick
    \/ \E r \in Replicas :
          \/ TryAcquire(r)
          \/ AcquireFails(r)
          \/ Renew(r)
          \/ ApplyEngine(r)
          \/ Signal(r)
          \/ Join(r)
          \/ Shutdown(r)
          \/ \E req \in LeaseRequests : Redirect(r, req)

SpecShutdown == InitLease /\ [][NextShutdown]_vars

----------------------------------------------------------------------------
(* Steps of a reconciliation, as seen in a pair of states *)

\* Replica r's reconciliation of i takes a step from program point pc.
StepFrom(r, i, pc) == rec[r][i].pc = pc /\ rec'[r][i] # rec[r][i]

\* ... and with it the reconciliation returns Ok.
EndsOk(r, i, pc) ==
    StepFrom(r, i, pc) /\ rec'[r][i].pc = "idle" /\ result'[r][i].outcome = "Ok"

IngressOf(i) == <<i.ns, ".", i.name>>

RuleHosts(ingress) == {rule.host : rule \in ingress.spec.rules}

----------------------------------------------------------------------------
(* Claims about the reconciliation engine *)

\* C1: when the cleanup of an Intent marked for deletion succeeds (the
\* Ingress DELETE returns Ok, and then the reconciliation returns Ok after
\* the finalizer patch), no Ingress named {namespace}.{name} exists and the
\* Intent no longer carries the finalizer.
C1_CleanupLeavesNoIngressNoFinalizer ==
    [][\A r \in Replicas, i \in Ids :
        /\ (StepFrom(r, i, "delete_ingress") /\ rec'[r][i].pc = "remove_finalizer")
              => /\ rec[r][i].obs.metadata.deletion_timestamp
                 /\ ~ingresses'[IngressOf(i)].exists
        /\ EndsOk(r, i, "remove_finalizer")
              => /\ ~ingresses'[IngressOf(i)].exists
                 /\ (intents'[i].exists => ~HasFinalizer(intents'[i]))]_vars

C1_Witness ==
    \E i \in Ids :
        /\ result[Primary][i].event = "Cleanup"
        /\ result[Primary][i].outcome = "Ok"
        /\ ~intents[i].exists
        /\ ~ingresses[IngressOf(i)].exists

\* C2: a cleanup that finds the Ingress already absent (404 on DELETE) is
\* treated as a success: no reconciliation ends with IngressDeletionFailed
\* because the Ingress did not exist.
C2_AbsentIngressIsCleanupSuccess ==
    \A r \in Replicas, i \in Ids :
        ~(/\ result[r][i].event = "Cleanup"
          /\ result[r][i].outcome = "IngressDeletionFailed"
          /\ result[r][i].cause = "NotFound")

\* C3: when an apply of an Intent with ingress.enabled (and no deletion
\* timestamp) returns Ok, the Ingress named {namespace}.{name} exists in the
\* operator namespace and its rules carry exactly the hosts of the Intent
\* that was applied, one rule per host.
C3_ApplyYieldsIngressWithExactlyTheHosts ==
    [][\A r \in Replicas, i \in Ids :
        (EndsOk(r, i, "patch_status") /\ rec[r][i].obs.spec.ingress.enabled)
          => LET ingress == ingresses'[IngressOf(i)] IN
             /\ ~rec[r][i].obs.metadata.deletion_timestamp
             /\ ingress.exists
             /\ ingress.metadata.name = IngressOf(i)
             /\ ingress.metadata.namespace = SelfNamespace
             /\ RuleHosts(ingress) = rec[r][i].obs.spec.hosts
             /\ Cardinality(ingress.spec.rules) =
                    Cardinality(rec[r][i].obs.spec.hosts)]_vars

C3_Witness ==
    \E i \in Ids :
        /\ result[Primary][i].event = "Apply"
        /\ result[Primary][i].outcome = "Ok"
        /\ rec[Primary][i].pc = "idle"
        /\ intents[i].exists
        /\ intents[i].spec.ingress.enabled
        /\ intents[i].spec.hosts = {HostA, HostB}
        /\ ingresses[IngressOf(i)].exists
        /\ RuleHosts(ingresses[IngressOf(i)]) = {HostA, HostB}

\* C4: when an apply of an Intent with ingress.enabled = false returns Ok
\* (in particular the first one after enabled went from true to false), no
\* Ingress named {namespace}.{name} exists afterwards.
C4_DisabledApplyDeletesStaleIngress ==
    [][\A r \in Replicas, i \in Ids :
        (EndsOk(r, i, "patch_status") /\ ~rec[r][i].obs.spec.ingress.enabled)
          => ~ingresses'[IngressOf(i)].exists]_vars

\* C10: a reconciliation that observed the Intent without the finalizer
\* issues no Ingress patch and no status patch: it only adds the finalizer
\* and returns; the reconciliations that patch observed the finalizer.
C10_FinalizerBeforeAnyOtherSideEffect ==
    [][\A r \in Replicas, i \in Ids :
        /\ (StepFrom(r, i, "patch_ingress") \/ StepFrom(r, i, "patch_status"))
              => HasFinalizer(rec[r][i].obs)
        /\ (rec'[r][i].pc \in {"patch_ingress", "patch_status"})
              => HasFinalizer(rec'[r][i].obs)
        /\ StepFrom(r, i, "add_finalizer")
              => /\ rec'[r][i].pc = "idle"
                 /\ ingresses' = ingresses
                 /\ (intents[i].exists /\ intents'[i].exists)
                       => intents'[i].status = intents[i].status]_vars

C10_Witness ==
    \E i \in Ids :
        /\ result[Primary][i].event = "AddFinalizer"
        /\ result[Primary][i].outcome = "Ok"
        /\ intents[i].exists
        /\ HasFinalizer(intents[i])
        /\ intents[i].status = None
        /\ ~ingresses[IngressOf(i)].exists

\* C11: apply is idempotent. Wherever an apply can run on the Intent as the
\* cluster holds it, running it a second time on the Intent that the first
\* run left (no other change) leaves the Ingresses and the Intents as the
\* first run left them; and in a run, a patch that finds the Ingress, or the
\* status, already as it writes it changes nothing in the cluster.
C11_ApplyTwiceIsApplyOnce ==
    /\ [](\A r \in Replicas, i \in Ids :
            (store[r][i].exists /\ store[r][i] = intents[i]
                /\ FinalizerArm(store[r][i]) = "Apply")
              => LET first == ApplyRun([ingresses |-> ingresses, intents |-> intents],
                                       i, store[r][i])
                     second == ApplyRun(first, i, first.intents[i])
                 IN  second = first)
    /\ [][\A r \in Replicas, i \in Ids :
            /\ (StepFrom(r, i, "patch_ingress") /\ rec'[r][i].pc = "patch_status"
                  /\ ingresses[IngressOf(i)] = ingress_for_redirect(rec[r][i].obs))
                  => (ingresses' = ingresses /\ intents' = intents)
            /\ (EndsOk(r, i, "patch_status")
                  /\ intents[i].status = Some(rec[r][i].status))
                  => (ingresses' = ingresses /\ intents' = intents)]_vars

\* A second apply in a row: the Intent it observed carries the status of the
\* first, and its Ingress patch found the Ingress as the first had left it.
C11_Witness ==
    \E i \in Ids :
        /\ rec[Primary][i].pc = "patch_status"
        /\ rec[Primary][i].obs = intents[i]
        /\ rec[Primary][i].obs.status = Some(rec[Primary][i].status)
        /\ rec[Primary][i].status.ingress.name = IngressOf(i)
        /\ result[Primary][i].event = "Apply"
        /\ result[Primary][i].outcome = "Ok"
        /\ ingresses[IngressOf(i)] = ingress_for_redirect(intents[i])

\* C12: after the Ingress patch of an apply of an enabled Intent, the tls
\* block of the Ingress is absent when the Intent has tls.enabled = false,
\* and present when it is true, with the Intent's hosts and the secret name
\* {name}-tls-certs when none is specified and the specified name otherwise:
\* absent, present, absent over the toggle false, true, false.
C12_TlsBlockFollowsTheToggle ==
    [][\A r \in Replicas, i \in Ids :
        (StepFrom(r, i, "patch_ingress") /\ rec'[r][i].pc = "patch_status")
          => LET tls == ingresses'[IngressOf(i)].spec.tls
                 want == rec[r][i].obs.spec.ingress.tls
             IN  IF want.enabled
                 THEN /\ tls # None
                      /\ tls.some.hosts = rec[r][i].obs.spec.hosts
                      /\ tls.some.secret_name =
                            (IF want.secret_name = None
                             THEN <<i.name, "-tls-certs">>
                             ELSE want.secret_name.some)
                 ELSE tls = None]_vars

\* The third apply of the toggle has patched the Ingress: the Intent had been
\* applied before, and the tls block is absent.
C12_Witness ==
    \E i \in Ids :
        /\ rec[Primary][i].pc = "patch_status"
        /\ ~rec[Primary][i].obs.spec.ingress.tls.enabled
        /\ rec[Primary][i].obs.status # None
        /\ result[Primary][i].event = "Apply"
        /\ result[Primary][i].outcome = "Ok"
        /\ ingresses[IngressOf(i)].exists
        /\ ingresses[IngressOf(i)].spec.tls = None

\* C16 as stated: every attempt of apply and of cleanup, successful or
\* failed, ends with the next check scheduled after 300 seconds.
C16_RequeueAfter300Always ==
    \A r \in Replicas, i \in Ids :
        result[r][i].event \in {"Apply", "Cleanup"}
          => result[r][i].action = Some(300)

\* C16 as amended: a successful apply or cleanup ends with the next check
\* scheduled after 300 seconds, a failed one with a retry after 1 second.
C16_RequeueAfter300OnSuccess ==
    \A r \in Replicas, i \in Ids :
        result[r][i].event \in {"Apply", "Cleanup"}
          => result[r][i].action =
                (IF result[r][i].outcome = "Ok" THEN Some(300) ELSE Some(1))

\* A cleanup of an Intent that had been applied fails on its DELETE call.
C16_Witness ==
    \E i \in Ids :
        /\ result[Primary][i].event = "Cleanup"
        /\ result[Primary][i].outcome = "IngressDeletionFailed"
        /\ result[Primary][i].action = Some(1)
        /\ intents[i].exists
        /\ intents[i].status # None

\* C17: an apply returns the first error it meets and makes no later call.
\* From the Ingress patch the attempt either goes on to the status patch or
\* ends with IngressCreationFailed, the Intents (their status) and the
\* Ingresses unchanged; from the status patch it ends, with Ok or with
\* StatusUpdateFailed and the Intents unchanged; no call is made twice.
C17_ApplyReturnsFirstError ==
    [][\A r \in Replicas, i \in Ids :
        /\ (rec[r][i].pc = "patch_ingress"
              /\ (rec'[r][i] # rec[r][i] \/ result'[r][i] # result[r][i]))
              => \/ /\ rec'[r][i].pc = "patch_status"
                    /\ result'[r][i] = result[r][i]
                    /\ intents' = intents
                 \/ /\ rec'[r][i].pc = "idle"
                    /\ result'[r][i].event = "Apply"
                    /\ result'[r][i].outcome = "IngressCreationFailed"
                    /\ intents' = intents
                    /\ ingresses' = ingresses
        /\ (rec[r][i].pc = "patch_status"
              /\ (rec'[r][i] # rec[r][i] \/ result'[r][i] # result[r][i]))
              => /\ rec'[r][i].pc = "idle"
                 /\ result'[r][i].event = "Apply"
                 /\ ingresses' = ingresses
                 /\ \/ result'[r][i].outcome = "Ok"
                    \/ /\ result'[r][i].outcome = "StatusUpdateFailed"
                       /\ intents' = intents]_vars

\* The Ingress patch of the first apply of an Intent has failed: the Intent
\* has no status and there is no Ingress.
C17_Witness ==
    \E i \in Ids :
        /\ result[Primary][i].event = "Apply"
        /\ result[Primary][i].outcome = "IngressCreationFailed"
        /\ rec[Primary][i].pc = "idle"
        /\ intents[i].exists
        /\ intents[i].status = None
        /\ ~ingresses[IngressOf(i)].exists

\* An Intent that is not marked for deletion.
Live(i) == intents[i].exists /\ ~intents[i].metadata.deletion_timestamp

\* The last reconciliation of i was an apply that returned Ok, and the
\* cluster is as it left it.
Applied(r, i) ==
    /\ result[r][i].event = "Apply"
    /\ result[r][i].outcome = "Ok"
    /\ intents[i].status = Some(ApplyStatus(intents[i]))
    /\ intents[i].spec.ingress.enabled
          => ingresses[IngressOf(i)] = ingress_for_redirect(intents[i])

IsError(res) == res.outcome \notin {"none", "Ok"}

\* C15: every error of a reconciliation (of apply, of cleanup, of adding or
\* removing the finalizer) ends the attempt with a retry scheduled after
\* 1 second and leaves the driver able to start the Intent's reconciliation
\* again; and when the calls that can succeed are not failed for ever, every
\* live Intent comes to be applied successfully, also after an error.
C15_ErrorsAreRetried ==
    /\ [](\A r \in Replicas, i \in Ids :
            IsError(result[r][i])
              => /\ result[r][i].action = Some(1)
                 /\ (rec[r][i].pc = "idle" /\ store[r][i].exists /\ leader[r])
                       => ENABLED Reconcile(r, i))
    /\ \A i \in EngineIds :
          Live(i) ~> (~Live(i) \/ Applied(Primary, i))

\* The status patch of an apply has failed, a retry after 1 second was
\* scheduled, and the driver has started the next apply of the Intent.
C15_Witness ==
    \E i \in Ids :
        /\ Live(i)
        /\ rec[Primary][i].pc = "patch_ingress"
        /\ result[Primary][i].event = "Apply"
        /\ result[Primary][i].outcome = "StatusUpdateFailed"
        /\ result[Primary][i].action = Some(1)
        /\ intents[i].status = None
        /\ ingresses[IngressOf(i)].exists

\* C13: an Intent marked for deletion that carries the finalizer is
\* eventually removed from the cluster, unless calls keep failing for
\* transport reasons, whatever its ingress.enabled and whether or not its
\* Ingress exists.
C13_DeletedIntentIsCollected ==
    \A i \in EngineIds :
        (intents[i].exists /\ intents[i].metadata.deletion_timestamp
            /\ HasFinalizer(intents[i]))
          ~> (\/ ~intents[i].exists
              \/ \E r \in Replicas : result[r][i].cause = "Transport")

\* C14: no Ingress outlives its Intent: in every state in which an Intent
\* is not in the cluster (removed for good, there being no re-creation), no
\* Ingress named {namespace}.{name} exists, whatever the interleaving of the
\* user's deletion, the watch events and the reconciliations of the replicas.
C14_NoIngressWithoutIntent ==
    \A i \in Ids : ~intents[i].exists => ~ingresses[IngressOf(i)].exists

\* C18: on a replica, no reconciliation of an Intent can be started while
\* one of that Intent is in flight (whatever is due for it: a watch event,
\* the requeue, the retry of an error), an attempt in flight is advanced only
\* by its own calls and never replaced by a second one, and at most 2
\* reconciliations are in flight: with 2 in flight none can be started.
C18_OneReconciliationPerIntent ==
    /\ [](\A r \in Replicas :
            /\ Cardinality(InFlight(r)) <= 2
            /\ \A i \in Ids :
                  (rec[r][i].pc # "idle" \/ Cardinality(InFlight(r)) = 2)
                    => ~ENABLED Reconcile(r, i))
    /\ [][\A r \in Replicas, i \in Ids :
            (rec[r][i].pc # "idle" /\ rec'[r][i] # rec[r][i])
              => \/ rec'[r][i].pc = "idle"
                 \/ /\ rec[r][i].pc = "patch_ingress"
                    /\ rec'[r][i].pc = "patch_status"
                    /\ rec'[r][i].obs = rec[r][i].obs
                 \/ /\ rec[r][i].pc = "delete_ingress"
                    /\ rec'[r][i].pc = "remove_finalizer"
                    /\ rec'[r][i].obs = rec[r][i].obs]_vars

\* Two reconciliations are in flight, one of them the retry of an Intent
\* whose last attempt failed; the third Intent is in the Store, its last
\* attempt failed too and its retry is due, and it is not started.
C18_Witness ==
    \E i, j, k \in Ids :
        /\ InFlight(Primary) = {i, j} /\ i # j /\ k \notin {i, j}
        /\ IsError(result[Primary][i])
        /\ store[Primary][k].exists
        /\ IsError(result[Primary][k])
        /\ ~ENABLED Reconcile(Primary, k)

----------------------------------------------------------------------------
(* Claims about the redirect handler *)

\* The Redirects of the responding replica's Store whose hosts contain h.
Claimants(h) == {i \in Ids : store[resp.replica][i].exists
                              /\ h \in store[resp.replica][i].spec.hosts}

\* h is raw without its trailing dots.
IsStrippedOf(h, raw) ==
    /\ Len(h) <= Len(raw)
    /\ h = SubSeq(raw, 1, Len(h))
    /\ \A k \in (Len(h) + 1)..Len(raw) : raw[k] = "."
    /\ (h # <<>> => h[Len(h)] # ".")

\* The target the claims expect for a Redirect's `to` and an appended path.
ExpectedTarget(to, appended) ==
    IF to.include_request_uri THEN to.uri \o <<"/">> \o appended ELSE to.uri

\* C8: a request whose host matches no Intent of the Store is answered with
\* a not-found response, without a redirect, and the handler does not fault.
C8_UnmatchedHostIsNotFoundNoFault ==
    (resp.kind # "none" /\ resp.from = None)
        => (resp.kind = "not_found" /\ resp.location = None)

----------------------------------------------------------------------------
(* Claims about leadership *)

Other(r) == CHOOSE q \in Replicas : q # r

\* The driver of replica r is able to start a reconciliation.
CanStart(r) == \E i \in Ids : ENABLED Reconcile(r, i)

\* C5 as stated: at most one replica's driver is active, where active means
\* performing a reconciliation or able to start one.
C5_AtMostOneActiveOrPerforming ==
    Cardinality({r \in Replicas : leader[r] \/ CanStart(r) \/ InFlight(r) # {}}) <= 1

\* C5 as amended: at most one replica is leader and able to start
\* reconciliations (none during a handover); a reconciliation in flight on a
\* replica that has just been demoted may still finish.
C5_AtMostOneLeader ==
    /\ Cardinality({r \in Replicas : leader[r] \/ CanStart(r)}) <= 1
    /\ \A r \in Replicas : leader[r] => (lease.holder = Some(r) /\ lease.ttl > 0)

\* Leadership has passed from r1 to r2, which reconciles.
C5_Witness ==
    /\ leader["r2"] /\ ~leader["r1"]
    /\ lease.holder = Some("r2")
    /\ result["r1"] # [i \in Ids |-> NoResult]
    /\ InFlight("r2") # {}

\* C6: a leader whose renewals stay blocked stops being leader and the
\* standby (whose calls are not blocked) becomes leader; a standby's call is
\* never more than one renewal period away, no time passes over a due call,
\* and a due call on a free lease makes the standby leader.
C6_Failover ==
    /\ [](\A q \in Replicas :
            /\ timer[q] <= RenewPeriod
            /\ (timer[q] = 0 /\ ~leader[q] /\ ~blocked[q] /\ LeaseFree)
                  => (ENABLED TryAcquire(q) /\ ~ENABLED Tick /\ ~ENABLED AcquireFails(q)))
    /\ \A r \in Replicas :
          (leader[r] /\ blocked[r])
             ~> (\/ ~blocked[r]
                 \/ blocked[Other(r)]
                 \/ (~leader[r] /\ leader[Other(r)] /\ DriverGate(Other(r))))

\* r1 was leader, its renewals are blocked, r2 has taken the lease over.
C6_Witness ==
    /\ blocked["r1"] /\ ~leader["r1"]
    /\ result["r1"] # [i \in Ids |-> NoResult]
    /\ leader["r2"] /\ lease.holder = Some("r2")
    /\ InFlight("r2") # {}

\* C7: on every replica, leader or not, and whatever its reconciliations in
\* flight, a request for a host of its Store can be served at once and is
\* answered with the permanent redirect.
C7_ServesOnEveryReplica ==
    [][\A r \in Replicas, req \in LeaseRequests :
        StoreMatches(r, trim_end_matches(HostToString(req.host), ".")) # {}
          => /\ ENABLED Redirect(r, req)
             /\ Redirect(r, req) => (/\ resp'.kind = "permanent_redirect"
                                     /\ resp'.replica = r
                                     /\ UNCHANGED <<leader, rec>>)]_vars

\* r2 lost the lease after failed renewals; it answers with the redirect.
C7_Witness ==
    /\ resp.kind = "permanent_redirect"
    /\ resp.replica = "r2"
    /\ ~leader["r2"] /\ blocked["r2"]
    /\ lease.holder = Some("r2")
    /\ result["r2"] # [i \in Ids |-> NoResult]

----------------------------------------------------------------------------
(* Claims about the shutdown *)

====
